---- MODULE Spec2Model ----
(***************************************************************************)
(* Model of src/deduplication/deduplication.py: remove_duplicates, the     *)
(* dedup-and-bulk-copy pipeline over two document-store collections.       *)
(*                                                                         *)
(* A document is a record [id, key]: id is the store-assigned _id, key is  *)
(* the value of the dedupe field (0 stands for a missing/null field, which *)
(* sorts before every other value).  A collection is the sequence of its   *)
(* documents in the store's natural order.                                 *)
(***************************************************************************)
EXTENDS Integers, Sequences, FiniteSets, TLC

\* ------------------------------------------------------------------ bounds
MaxDocs == 3        \* documents in the source collection
MaxKey == 2         \* dedupe-field values are 1..MaxKey, plus 0 for "missing"
MaxOld == 2         \* documents the destination holds before the first run
MaxBatch == 3       \* largest batch_size passed by the caller
MaxFail == 2        \* the store may fail the 1st..MaxFail-th bulk_write of a run
MaxRuns == 2        \* calls of remove_duplicates made in sequence

Keys == 0..MaxKey
BatchSizes == (0 - 1)..MaxBatch
Colls == {"A", "B"}

Doc(i, k) == [id |-> i, key |-> k]

\* ------------------------------------------------------------------ state
VARIABLES
    db,          \* collection name -> sequence of documents (the store)
    src_col,     \* name of the source collection handle
    dest_col,    \* name of the destination collection handle
    batch_size,  \* the batch_size argument
    globals,     \* names bound in the module's global namespace
    rejects,     \* _ids the destination refuses on insert (constraint violation)
    failAt,      \* number of the bulk_write call of a run that raises (0: none)
    pc,          \* line of remove_duplicates about to execute, or done / raised
    cursor,      \* documents the aggregation cursor has still to yield
    ops,         \* the pending batch
    total,       \* the running count
    ret,         \* the returned value (-1 while nothing was returned)
    err,         \* the exception that ended the run ("none" while none)
    log,         \* store operations issued by the current run, in order
    calls,       \* per call made so far: source and destination content at its start
    mpc,         \* line of the __main__ block about to execute ("lib": imported)
    prompted,    \* the confirmation prompt of line 85 was shown
    answer,      \* what the user typed at the prompt
    other        \* locals of a second, concurrent call on the same collections

vars == <<db, src_col, dest_col, batch_size, globals, rejects, failAt, pc,
          cursor, ops, total, ret, err, log, calls, mpc, prompted, answer,
          other>>

params == <<src_col, dest_col, batch_size, globals, rejects, failAt>>

\* State of the command-line wrapper and of a concurrent call, which a call of
\* remove_duplicates never touches.
outer == <<mpc, prompted, answer, other>>

\* Number of the current call, and the content it found when it began.
run == Len(calls)

before == calls[Len(calls)]

\* ---------------------------------------------------------------- helpers
DocSet(s) == {s[i] : i \in 1..Len(s)}

IdSet(s) == {s[i].id : i \in 1..Len(s)}

KeySet(s) == {s[i].key : i \in 1..Len(s)}

\* Number of documents of s whose dedupe field has value k.
CountKey(s, k) == Cardinality({i \in 1..Len(s) : s[i].key = k})

\* ------------------------------------------------- the store (MongoDB)
\* Stage {"$sort": {field: 1}}: ascending by the dedupe field; documents with
\* equal values keep the store's natural order.
RECURSIVE SortFrom(_, _)
SortFrom(s, k) ==
    IF k > MaxKey THEN <<>>
    ELSE SelectSeq(s, LAMBDA d : d.key = k) \o SortFrom(s, k + 1)

SortStage(s) == SortFrom(s, 0)

\* A $group that keeps the last document of each group instead of the first.
RECURSIVE GroupStageLast(_, _)
GroupStageLast(s, seen) ==
    IF s = <<>> THEN <<>>
    ELSE IF Head(s).key \in seen THEN GroupStageLast(Tail(s), seen)
    ELSE LET same == SelectSeq(s, LAMBDA d : d.key = Head(s).key)
         IN  <<[_id |-> Head(s).key, doc |-> same[Len(same)]]>>
                 \o GroupStageLast(Tail(s), seen \cup {Head(s).key})

\* Stage {"$group": {"_id": "$field", "doc": {"$first": "$$ROOT"}}}: one output
\* per distinct value, carrying the first input document that has it.
RECURSIVE GroupStage(_, _)
GroupStage(s, seen) ==
    IF s = <<>> THEN <<>>
    ELSE IF Head(s).key \in seen THEN GroupStage(Tail(s), seen)
    ELSE <<[_id |-> Head(s).key, doc |-> Head(s)]>>
             \o GroupStage(Tail(s), seen \cup {Head(s).key})

\* Stage {"$replaceRoot": {"newRoot": "$doc"}}: unwrap the kept document.
ReplaceRootStage(g) == [i \in 1..Len(g) |-> g[i].doc]

\* pipeline, as run by src_col.aggregate(pipeline): the result set is computed
\* from the collection's content when the call is made.
pipeline(coll) == ReplaceRootStage(GroupStage(SortStage(coll), {}))

\* A delete that removes nothing.
delete_none(coll) == coll

\* A delete_one({}) in place of delete_many({}).
delete_one(coll) == IF coll = <<>> THEN <<>> ELSE Tail(coll)

\* dest_col.delete_many({}): the collection content after the call.
delete_many(coll) == <<>>

\* dest_col.bulk_write(ops, ordered=False), the n-th bulk_write of the run, on a
\* collection holding coll.  A call the store fails as a whole raises and inserts
\* nothing.  Otherwise every operation is attempted: a document the collection
\* refuses (a constraint, or an _id already present) is skipped, the others are
\* appended, and with any refusal the driver raises BulkWriteError afterwards.
bulk_write(coll, batch, n) ==
    IF n = failAt
    THEN [coll |-> coll, exc |-> "OperationFailure", nInserted |-> 0]
    ELSE LET ok == SelectSeq(batch, LAMBDA d : d.id \notin rejects
                                               /\ d.id \notin IdSet(coll))
         IN  [coll |-> coll \o ok,
              exc |-> IF Len(ok) < Len(batch) THEN "BulkWriteError" ELSE "none",
              nInserted |-> Len(ok)]

LogEntry(o, c, n, d) == [op |-> o, coll |-> c, n |-> n, allowDiskUse |-> d]

NumBulk(l) == Cardinality({i \in 1..Len(l) : l[i].op = "bulk_write"})

\* Names the module binds at import: lines 12-14 and the def at line 16.
module_globals == {"MongoClient", "Collection", "argparse", "remove_duplicates"}

\* Locals of a second call: absent, or about to execute line 42.  delAt is the
\* number of bulk-writes the first call had issued when this call issued its
\* delete-all (-1 while it has not).
NoCall == [pc |-> "absent", cursor |-> <<>>, ops |-> <<>>, total |-> 0,
           ret |-> 0 - 1, err |-> "none", nbulk |-> 0, delAt |-> 0 - 1]

NewCall == [NoCall EXCEPT !.pc = "L42"]

\* ------------------------------------------------------------------ Init
\* Source collections: up to MaxDocs documents with _ids 1..n in natural order
\* and any dedupe-field values.
Sources ==
    UNION {{[i \in 1..n |-> Doc(i, f[i])] : f \in [1..n -> Keys]} : n \in 0..MaxDocs}

\* Prior destination content: up to MaxOld documents sharing one field value.
OldDests == {[i \in 1..n |-> Doc(100 + i, 1)] : n \in 0..MaxOld}

Init ==
    /\ src_col = "A"
    /\ dest_col \in Colls
    /\ \E s \in Sources, o \in OldDests :
          /\ dest_col = "A" => o = <<>>
          /\ db = [c \in Colls |-> IF c = "A" THEN s ELSE o]
    /\ batch_size \in BatchSizes
    /\ globals = module_globals
    /\ rejects \in SUBSET {1}
    /\ failAt \in 0..MaxFail
    /\ mpc \in {"lib", "L84"}
    /\ pc = IF mpc = "lib" THEN "L42" ELSE "idle"
    /\ prompted = FALSE
    /\ answer = ""
    /\ other = NoCall
    /\ cursor = <<>>
    /\ ops = <<>>
    /\ total = 0
    /\ ret = 0 - 1
    /\ err = "none"
    /\ log = <<>>
    /\ calls = <<[src |-> db[src_col], dest |-> db[dest_col]]>>

\* --------------------------------------------------------------- actions
\* line 42: cursor = src_col.aggregate(pipeline)
Aggregate1 ==
    /\ pc = "L42"
    /\ cursor' = pipeline(db[src_col])
    /\ log' = Append(log, LogEntry("aggregate", src_col, 0, FALSE))
    /\ pc' = "L44"
    /\ UNCHANGED <<db, params, ops, total, ret, err, calls, outer>>

\* A delete-all that is skipped when the query of line 42 found nothing to copy.
DeleteManyUnlessEmpty ==
    /\ pc = "L44"
    /\ IF cursor = <<>>
       THEN UNCHANGED <<db, log>>
       ELSE /\ db' = [db EXCEPT ![dest_col] = delete_many(db[dest_col])]
            /\ log' = Append(log, LogEntry("delete_many", dest_col, 0, FALSE))
    /\ pc' = "L47"
    /\ UNCHANGED <<params, cursor, ops, total, ret, err, calls, outer>>

\* A delete-all issued on the source handle instead of the destination.
DeleteManyOnSource ==
    /\ pc = "L44"
    /\ db' = [db EXCEPT ![src_col] = delete_many(db[src_col])]
    /\ log' = Append(log, LogEntry("delete_many", src_col, 0, FALSE))
    /\ pc' = "L47"
    /\ UNCHANGED <<params, cursor, ops, total, ret, err, calls, outer>>

\* line 44: dest_col.delete_many({})
DeleteMany ==
    /\ pc = "L44"
    /\ db' = [db EXCEPT ![dest_col] = delete_many(db[dest_col])]
    /\ log' = Append(log, LogEntry("delete_many", dest_col, 0, FALSE))
    /\ pc' = "L47"
    /\ UNCHANGED <<params, cursor, ops, total, ret, err, calls, outer>>

\* Lines 47-49 without the second query: the loop reads the cursor of line 42.
Aggregate2KeepCursor ==
    /\ pc = "L47"
    /\ ops' = <<>>
    /\ total' = 0
    /\ pc' = "L51"
    /\ UNCHANGED <<db, params, cursor, log, ret, err, calls, outer>>

\* lines 47-49: cursor = src_col.aggregate(pipeline, allowDiskUse=True);
\* ops = []; total = 0
Aggregate2 ==
    /\ pc = "L47"
    /\ cursor' = pipeline(db[src_col])
    /\ log' = Append(log, LogEntry("aggregate", src_col, 0, TRUE))
    /\ ops' = <<>>
    /\ total' = 0
    /\ pc' = "L51"
    /\ UNCHANGED <<db, params, ret, err, calls, outer>>

\* lines 51-57, one iteration of the loop: fetch the next document, build
\* InsertOne(doc), append it, and flush when the batch has reached batch_size.
\* InsertOne is looked up in the module's globals when the line runs; an
\* unbound name raises NameError.
LoopBody ==
    /\ pc = "L51"
    /\ cursor # <<>>
    /\ cursor' = Tail(cursor)
    /\ IF "InsertOne" \notin globals
       THEN /\ pc' = "raised"
            /\ err' = "NameError"
            /\ UNCHANGED <<db, ops, total, log>>
       ELSE LET ops1 == Append(ops, Head(cursor))
            IN  IF Len(ops1) >= batch_size
                THEN LET r == bulk_write(db[dest_col], ops1, NumBulk(log) + 1)
                     IN  /\ db' = [db EXCEPT ![dest_col] = r.coll]
                         /\ log' = Append(log, LogEntry("bulk_write", dest_col,
                                                        Len(ops1), FALSE))
                         /\ IF r.exc # "none"
                            THEN /\ pc' = "raised"
                                 /\ err' = r.exc
                                 /\ ops' = ops1
                                 /\ total' = total
                            ELSE /\ pc' = "L51"
                                 /\ err' = err
                                 /\ ops' = <<>>
                                 /\ total' = total + Len(ops1)
                ELSE /\ ops' = ops1
                     /\ pc' = "L51"
                     /\ UNCHANGED <<db, total, log, err>>
    /\ UNCHANGED <<params, ret, calls, outer>>

\* line 51, cursor exhausted: leave the loop.
LoopExit ==
    /\ pc = "L51"
    /\ cursor = <<>>
    /\ pc' = "L60"
    /\ UNCHANGED <<db, params, cursor, ops, total, ret, err, log, calls, outer>>

\* lines 60-62: flush the remaining partial batch, if any.
FinalFlush ==
    /\ pc = "L60"
    /\ IF ops # <<>>
       THEN LET r == bulk_write(db[dest_col], ops, NumBulk(log) + 1)
            IN  /\ db' = [db EXCEPT ![dest_col] = r.coll]
                /\ log' = Append(log, LogEntry("bulk_write", dest_col,
                                               Len(ops), FALSE))
                /\ IF r.exc # "none"
                   THEN /\ pc' = "raised"
                        /\ err' = r.exc
                        /\ total' = total
                   ELSE /\ pc' = "L64"
                        /\ err' = err
                        /\ total' = total + Len(ops)
       ELSE /\ pc' = "L64"
            /\ UNCHANGED <<db, log, err, total>>
    /\ UNCHANGED <<params, cursor, ops, ret, calls, outer>>

\* line 64: return total
Return ==
    /\ pc = "L64"
    /\ ret' = total
    /\ pc' = "done"
    /\ UNCHANGED <<db, params, cursor, ops, total, err, log, calls, outer>>

\* The caller calls remove_duplicates again with the same arguments, once the
\* previous call has returned or raised.
CallAgain ==
    /\ mpc = "lib"
    /\ pc \in {"done", "raised"}
    /\ run < MaxRuns
    /\ calls' = Append(calls, [src |-> db[src_col], dest |-> db[dest_col]])
    /\ pc' = "L42"
    /\ cursor' = <<>>
    /\ ops' = <<>>
    /\ total' = 0
    /\ ret' = 0 - 1
    /\ err' = "none"
    /\ log' = <<>>
    /\ UNCHANGED <<db, params, outer>>

\* ------------------------------------------------ the __main__ block
\* What the user may type at the prompt.
Answers == {"y", "Y", "n", "N", "yes", ""}

\* str.lower() on the answers above.
lower(s) == CASE s = "Y" -> "y"
              [] s = "N" -> "n"
              [] OTHER -> s

\* A gate that stops only on an explicit "n".
declined_only_n(a) == lower(a) = "n"

\* line 86: proceed.lower() != 'y'
declined(a) == lower(a) # "y"

\* line 84: if dest_col.count_documents({}) > 0
MainCount ==
    /\ mpc = "L84"
    /\ mpc' = IF Len(db[dest_col]) > 0 THEN "L85" ELSE "L91"
    /\ UNCHANGED <<db, params, pc, cursor, ops, total, ret, err, log, calls,
                   prompted, answer, other>>

\* lines 85-88: proceed = input(...); unless it is y or Y, print and exit(1)
MainPrompt ==
    /\ mpc = "L85"
    /\ prompted' = TRUE
    /\ \E a \in Answers :
          /\ answer' = a
          /\ mpc' = IF declined(a) THEN "exit1" ELSE "L91"
    /\ UNCHANGED <<db, params, pc, cursor, ops, total, ret, err, log, calls,
                   other>>

\* line 91: the call of remove_duplicates(src_col, dest_col, field, batch_size)
MainCall ==
    /\ mpc = "L91"
    /\ pc = "idle"
    /\ pc' = "L42"
    /\ mpc' = "L91_called"
    /\ UNCHANGED <<db, params, cursor, ops, total, ret, err, log, calls,
                   prompted, answer, other>>

\* lines 91-92: the call returned; print the total and end with status 0
MainPrint ==
    /\ mpc = "L91_called"
    /\ pc = "done"
    /\ mpc' = "exit0"
    /\ UNCHANGED <<db, params, pc, cursor, ops, total, ret, err, log, calls,
                   prompted, answer, other>>

\* line 91: the call raised; nothing catches it and the interpreter ends with
\* status 1
MainUncaught ==
    /\ mpc = "L91_called"
    /\ pc = "raised"
    /\ mpc' = "exit1"
    /\ UNCHANGED <<db, params, pc, cursor, ops, total, ret, err, log, calls,
                   prompted, answer, other>>

Next ==
    \/ Aggregate1
    \/ DeleteMany
    \/ Aggregate2
    \/ LoopBody
    \/ LoopExit
    \/ FinalFlush
    \/ Return
    \/ CallAgain
    \/ MainCount
    \/ MainPrompt
    \/ MainCall
    \/ MainPrint
    \/ MainUncaught

Spec == Init /\ [][Next]_vars

\* The same program with the name InsertOne bound in the module's namespace
\* (as "from pymongo import InsertOne" would bind it).
InitImported ==
    /\ src_col = "A"
    /\ dest_col \in Colls
    /\ \E s \in Sources, o \in OldDests :
          /\ dest_col = "A" => o = <<>>
          /\ db = [c \in Colls |-> IF c = "A" THEN s ELSE o]
    /\ batch_size \in BatchSizes
    /\ globals = module_globals \cup {"InsertOne"}
    /\ rejects \in SUBSET {1}
    /\ failAt \in 0..MaxFail
    /\ mpc = "lib"
    /\ pc = "L42"
    /\ prompted = FALSE
    /\ answer = ""
    /\ other = NoCall
    /\ cursor = <<>>
    /\ ops = <<>>
    /\ total = 0
    /\ ret = 0 - 1
    /\ err = "none"
    /\ log = <<>>
    /\ calls = <<[src |-> db[src_col], dest |-> db[dest_col]]>>

SpecImported == InitImported /\ [][Next]_vars

\* ------------------------------------------- a second, concurrent call
\* The steps of remove_duplicates taken by a second call with the same
\* arguments, on the same store, with its own locals.  Nothing in the code
\* orders its store operations with those of the first call.
\* line 42
OtherAggregate1 ==
    /\ other.pc = "L42"
    /\ other' = [other EXCEPT !.pc = "L44", !.cursor = pipeline(db[src_col])]
    /\ UNCHANGED <<db, params, pc, cursor, ops, total, ret, err, log, calls,
                   mpc, prompted, answer>>

\* line 44
OtherDeleteMany ==
    /\ other.pc = "L44"
    /\ db' = [db EXCEPT ![dest_col] = delete_many(db[dest_col])]
    /\ other' = [other EXCEPT !.pc = "L47", !.delAt = NumBulk(log)]
    /\ UNCHANGED <<params, pc, cursor, ops, total, ret, err, log, calls,
                   mpc, prompted, answer>>

\* lines 47-49
OtherAggregate2 ==
    /\ other.pc = "L47"
    /\ other' = [other EXCEPT !.pc = "L51", !.cursor = pipeline(db[src_col]),
                              !.ops = <<>>, !.total = 0]
    /\ UNCHANGED <<db, params, pc, cursor, ops, total, ret, err, log, calls,
                   mpc, prompted, answer>>

\* lines 51-57, one iteration
OtherLoopBody ==
    /\ other.pc = "L51"
    /\ other.cursor # <<>>
    /\ IF "InsertOne" \notin globals
       THEN /\ other' = [other EXCEPT !.pc = "raised", !.err = "NameError",
                                      !.cursor = Tail(other.cursor)]
            /\ db' = db
       ELSE LET ops1 == Append(other.ops, Head(other.cursor))
            IN  IF Len(ops1) >= batch_size
                THEN LET r == bulk_write(db[dest_col], ops1, other.nbulk + 1)
                     IN  /\ db' = [db EXCEPT ![dest_col] = r.coll]
                         /\ other' =
                               IF r.exc # "none"
                               THEN [other EXCEPT !.pc = "raised", !.err = r.exc,
                                                  !.cursor = Tail(other.cursor),
                                                  !.ops = ops1,
                                                  !.nbulk = other.nbulk + 1]
                               ELSE [other EXCEPT !.cursor = Tail(other.cursor),
                                                  !.ops = <<>>,
                                                  !.total = other.total + Len(ops1),
                                                  !.nbulk = other.nbulk + 1]
                ELSE /\ other' = [other EXCEPT !.cursor = Tail(other.cursor),
                                               !.ops = ops1]
                     /\ db' = db
    /\ UNCHANGED <<params, pc, cursor, ops, total, ret, err, log, calls,
                   mpc, prompted, answer>>

\* line 51, cursor exhausted
OtherLoopExit ==
    /\ other.pc = "L51"
    /\ other.cursor = <<>>
    /\ other' = [other EXCEPT !.pc = "L60"]
    /\ UNCHANGED <<db, params, pc, cursor, ops, total, ret, err, log, calls,
                   mpc, prompted, answer>>

\* lines 60-62
OtherFinalFlush ==
    /\ other.pc = "L60"
    /\ IF other.ops # <<>>
       THEN LET r == bulk_write(db[dest_col], other.ops, other.nbulk + 1)
            IN  /\ db' = [db EXCEPT ![dest_col] = r.coll]
                /\ other' =
                      IF r.exc # "none"
                      THEN [other EXCEPT !.pc = "raised", !.err = r.exc,
                                         !.nbulk = other.nbulk + 1]
                      ELSE [other EXCEPT !.pc = "L64",
                                         !.total = other.total + Len(other.ops),
                                         !.nbulk = other.nbulk + 1]
       ELSE /\ other' = [other EXCEPT !.pc = "L64"]
            /\ db' = db
    /\ UNCHANGED <<params, pc, cursor, ops, total, ret, err, log, calls,
                   mpc, prompted, answer>>

\* line 64
OtherReturn ==
    /\ other.pc = "L64"
    /\ other' = [other EXCEPT !.pc = "done", !.ret = other.total]
    /\ UNCHANGED <<db, params, pc, cursor, ops, total, ret, err, log, calls,
                   mpc, prompted, answer>>

\* Two calls of remove_duplicates with the same arguments, started together on
\* distinct source and destination collections, with a store that fails nothing.
InitConcurrent ==
    /\ src_col = "A"
    /\ dest_col = "B"
    /\ \E s \in Sources, o \in OldDests :
          db = [c \in Colls |-> IF c = "A" THEN s ELSE o]
    /\ batch_size \in BatchSizes
    /\ globals = module_globals
    /\ rejects = {}
    /\ failAt = 0
    /\ mpc = "lib"
    /\ pc = "L42"
    /\ prompted = FALSE
    /\ answer = ""
    /\ other = NewCall
    /\ cursor = <<>>
    /\ ops = <<>>
    /\ total = 0
    /\ ret = 0 - 1
    /\ err = "none"
    /\ log = <<>>
    /\ calls = <<[src |-> db[src_col], dest |-> db[dest_col]]>>

NextConcurrent ==
    \/ Aggregate1
    \/ DeleteMany
    \/ Aggregate2
    \/ LoopBody
    \/ LoopExit
    \/ FinalFlush
    \/ Return
    \/ OtherAggregate1
    \/ OtherDeleteMany
    \/ OtherAggregate2
    \/ OtherLoopBody
    \/ OtherLoopExit
    \/ OtherFinalFlush
    \/ OtherReturn

SpecConcurrent == InitConcurrent /\ [][NextConcurrent]_vars

\* The concurrent calls with the name InsertOne bound in the module's namespace.
InitConcurrentImported ==
    /\ src_col = "A"
    /\ dest_col = "B"
    /\ \E s \in Sources, o \in OldDests :
          db = [c \in Colls |-> IF c = "A" THEN s ELSE o]
    /\ batch_size \in BatchSizes
    /\ globals = module_globals \cup {"InsertOne"}
    /\ rejects = {}
    /\ failAt = 0
    /\ mpc = "lib"
    /\ pc = "L42"
    /\ prompted = FALSE
    /\ answer = ""
    /\ other = NewCall
    /\ cursor = <<>>
    /\ ops = <<>>
    /\ total = 0
    /\ ret = 0 - 1
    /\ err = "none"
    /\ log = <<>>
    /\ calls = <<[src |-> db[src_col], dest |-> db[dest_col]]>>

SpecConcurrentImported == InitConcurrentImported /\ [][NextConcurrent]_vars

\* ------------------------------------------------------------ properties
Ended == pc \in {"done", "raised"}

\* The current run has issued its delete-all on the destination.
Cleared ==
    \E i \in 1..Len(log) : log[i].op = "delete_many" /\ log[i].coll = dest_col

dest == db[dest_col]

\* Distinct dedupe-field values of the source as the current call found it.
K == Cardinality(KeySet(before.src))

\* d is a whole document of collection s and, among the documents of s with
\* d's field value, the earliest in store order (_ids grow in store order).
IsRepresentative(d, s) ==
    /\ d \in DocSet(s)
    /\ \A e \in DocSet(s) : e.key = d.key => d.id <= e.id

\* The documents a complete copy of source s puts in the destination.
Representatives(s) == {d \in DocSet(s) : IsRepresentative(d, s)}

\* No store failure is due: no bulk_write is failed and no insert is refused.
NoFailureDue == failAt = 0 /\ rejects = {}

Ceil(a, b) == (a + b - 1) \div b

\* C1 (Uniqueness): in every state from the run's delete-all onward, whether the
\* run goes on, returns or stops on an error, the destination collection holds
\* at most one document per value of the dedupe field.
C1_Uniqueness ==
    Cleared => \A k \in Keys : CountKey(dest, k) <= 1

\* A run that cleared a destination holding two documents with the same field
\* value and then stopped on an error.
C1_Witness ==
    /\ Cleared
    /\ pc = "raised"
    /\ CountKey(before.dest, 1) >= 2
    /\ dest_col # src_col

\* C2 (Completeness): a run in which no write fails completes, and the
\* destination then holds exactly one document for every distinct dedupe-field
\* value of the source and nothing else, so as many documents as the source has
\* distinct values (documents lacking the field forming one group).
C2_Completeness ==
    (Ended /\ NoFailureDue /\ dest_col # src_col)
        => /\ pc = "done"
           /\ KeySet(dest) = KeySet(before.src)
           /\ \A k \in Keys : CountKey(dest, k) <= 1
           /\ Len(dest) = K

\* The source content the open cursor was computed from: the content at the call
\* for the query of line 42, the current content for the query of line 47.
Queried == IF pc \in {"L44", "L47"} THEN before.src ELSE db[src_col]

C4_Idempotence ==
    (run >= 2 /\ Ended) => DocSet(dest) = DocSet(before.dest)

\* The second of two calls has ended; the first found a non-empty destination
\* and a non-empty source.
C4_Witness ==
    /\ run = 2
    /\ Ended
    /\ calls[1].dest # <<>>
    /\ calls[1].src # <<>>
    /\ dest_col # src_col

\* C5 (Batch size validation): a call with batch_size <= 0 is rejected before
\* any store operation: the run issues no query, no delete-all and no
\* bulk-write, it does not get past its first line other than by raising, and
\* the destination keeps the content it had.
C5_BatchSizeRejected ==
    batch_size <= 0
        => /\ log = <<>>
           /\ pc \in {"L42", "raised"}
           /\ dest = before.dest

\* C6 (Per-document failure tolerance): in a run where the destination refuses
\* one of the documents to copy and no bulk-write fails as a whole, no error is
\* raised: the run flushes every batch and returns, and the destination holds
\* every other document of the reader's sequence.
C6_PerDocumentTolerance ==
    (Ended /\ failAt = 0 /\ dest_col # src_col
           /\ rejects \cap IdSet(pipeline(before.src)) # {})
        => /\ pc = "done"
           /\ DocSet(dest) = {d \in Representatives(before.src) : d.id \notin rejects}

\* C7 (Returned total): a run in which no bulk-write fails as a whole returns,
\* and the value it returns is the number of documents inserted into the
\* destination: the number the reader produced less the refused inserts.
C7_ReturnedTotal ==
    (Ended /\ failAt = 0 /\ dest_col # src_col)
        => /\ pc = "done"
           /\ ret = Len(dest)
           /\ ret = K - Cardinality(rejects \cap IdSet(pipeline(before.src)))

\* C8 (Batching correctness): for a source with K distinct dedupe-field values
\* and a positive batch size B, a run that the store does not fail completes
\* having issued exactly ceil(K / B) bulk-write calls.
C8_BulkWriteCalls ==
    (Ended /\ NoFailureDue /\ batch_size > 0 /\ dest_col # src_col)
        => /\ pc = "done"
           /\ NumBulk(log) = Ceil(K, batch_size)

\* C9 (Clear-first ordering): every bulk-write of a run comes after the run's
\* delete-all on the destination; a run that has ended has issued the delete-all
\* and left in the destination no document that was there before the run; with
\* an empty source the run returns 0 and the destination ends empty.
C9_ClearFirst ==
    /\ \A i \in 1..Len(log) :
          log[i].op = "bulk_write"
              => \E j \in 1..(i - 1) :
                    log[j].op = "delete_many" /\ log[j].coll = dest_col
    /\ Ended => /\ Cleared
                /\ DocSet(before.dest) \cap DocSet(dest) = {}
    /\ (Ended /\ before.src = <<>>)
           => pc = "done" /\ ret = 0 /\ dest = <<>>

\* A run over an empty source has returned; the destination was not empty
\* before it.
C9_Witness ==
    /\ pc = "done"
    /\ before.src = <<>>
    /\ before.dest # <<>>
    /\ run = 1

\* C10 (Hard write failure): in a run where the store fails the j-th bulk-write
\* the run is due to issue, the run stops on that error at that call: the j-th
\* bulk-write is the last store operation it issues, and the destination holds
\* the documents of the j - 1 batches flushed before it.
C10_HardWriteFailure ==
    (Ended /\ rejects = {} /\ batch_size > 0 /\ dest_col # src_col
           /\ failAt >= 1 /\ failAt <= Ceil(K, batch_size))
        => /\ pc = "raised"
           /\ err = "OperationFailure"
           /\ NumBulk(log) = failAt
           /\ log[Len(log)].op = "bulk_write"
           /\ dest = SubSeq(pipeline(before.src), 1, (failAt - 1) * batch_size)

\* C11 (Confirmation gate): the command-line wrapper prompts only when the
\* destination is non-empty before the run; with any answer other than y or Y
\* the program ends with a non-zero status without calling remove_duplicates,
\* no store operation is issued and source and destination keep their content;
\* with an empty destination there is no prompt and the run proceeds; a run on a
\* non-empty destination starts only after the answer y or Y.
C11_ConfirmationGate ==
    /\ prompted => calls[1].dest # <<>>
    /\ (mpc \notin {"lib", "L84"} /\ calls[1].dest = <<>>)
           => ~prompted /\ (mpc = "L91" \/ pc # "idle")
    /\ (prompted /\ answer \notin {"y", "Y"})
           => /\ mpc = "exit1"
              /\ pc = "idle"
              /\ log = <<>>
              /\ db[dest_col] = calls[1].dest
              /\ db[src_col] = calls[1].src
    /\ (mpc # "lib" /\ calls[1].dest # <<>> /\ pc # "idle")
           => prompted /\ answer \in {"y", "Y"}

\* The user answered "yes" to the prompt and the program ended with status 1.
C11_Witness ==
    /\ prompted
    /\ answer = "yes"
    /\ mpc = "exit1"
    /\ calls[1].src # <<>>

\* The reader's sequence of the current run: what the grouping query yields on
\* the source as the call found it.
Reader == pipeline(before.src)

\* Bulk-writes of the current run that completed (the one that raised as a
\* whole, if any, did not).
Flushed == NumBulk(log) - (IF err = "OperationFailure" THEN 1 ELSE 0)

Min(a, b) == IF a <= b THEN a ELSE b

\* C12 (Flushed-prefix invariant): at every point of a run after its delete-all,
\* with a positive batch size B and no refused insert, the destination holds
\* exactly the documents of the batches flushed so far, that is the first j * B
\* documents of the reader's sequence (all of it once the last, partial batch is
\* flushed) after j completed bulk-writes, and nothing else; a run that stops on
\* an error leaves exactly that.
C12_FlushedPrefix ==
    (Cleared /\ rejects = {} /\ batch_size > 0 /\ dest_col # src_col)
        => dest = SubSeq(Reader, 1, Min(Flushed * batch_size, Len(Reader)))

\* A run with documents to copy stopped on an error after clearing a non-empty
\* destination.
C12_Witness ==
    /\ Cleared
    /\ pc = "raised"
    /\ rejects = {}
    /\ batch_size > 0
    /\ dest_col # src_col
    /\ Len(Reader) >= 2
    /\ before.dest # <<>>

\* Sizes of the batches the current run submitted, in call order.
RECURSIVE BulkSizes(_)
BulkSizes(l) ==
    IF l = <<>> THEN <<>>
    ELSE (IF Head(l).op = "bulk_write" THEN <<Head(l).n>> ELSE <<>>)
             \o BulkSizes(Tail(l))

RECURSIVE Sum(_)
Sum(s) == IF s = <<>> THEN 0 ELSE Head(s) + Sum(Tail(s))

\* C13 (Batch shape): for a positive batch size B the pending batch never holds
\* more than B operations and no bulk-write is issued with an empty batch; a run
\* that the store does not fail returns with an empty buffer, and the batches it
\* submitted, in call order, make up the reader's sequence with each document
\* submitted once: every batch has exactly B documents except possibly the
\* last, which has between 1 and B.
C13_BatchShape ==
    batch_size > 0
        => /\ Len(ops) <= batch_size
           /\ \A i \in 1..Len(log) : log[i].op = "bulk_write" => log[i].n >= 1
           /\ (Ended /\ NoFailureDue /\ dest_col # src_col)
                  => LET sizes == BulkSizes(log)
                     IN  /\ pc = "done"
                         /\ ops = <<>>
                         /\ Sum(sizes) = Len(Reader)
                         /\ dest = Reader
                         /\ \A i \in 1..Len(sizes) :
                               /\ sizes[i] >= 1
                               /\ sizes[i] <= batch_size
                               /\ i < Len(sizes) => sizes[i] = batch_size

\* C14 (Spill capability): every grouping query a run issues against the source
\* has spill-to-disk enabled.
C14_SpillEnabled ==
    \A i \in 1..Len(log) : log[i].op = "aggregate" => log[i].allowDiskUse

\* C15 (Source is read-only): when source and destination are different
\* collections, a run issues nothing but grouping queries on the source, and
\* the source holds at every point, whether the run has returned or raised,
\* the content it had before the first call.
C15_SourceReadOnly ==
    dest_col # src_col
        => /\ db[src_col] = calls[1].src
           /\ \A i \in 1..Len(log) :
                 log[i].coll = src_col => log[i].op = "aggregate"

\* A run over a non-empty source has ended and has changed the destination.
C15_Witness ==
    /\ Ended
    /\ dest_col # src_col
    /\ before.src # <<>>
    /\ dest # before.dest

\* C16 (Aliased collections): when the source and the destination are the same
\* collection, the delete-all precedes the grouping query whose results the
\* loop reads, so that query finds nothing: the run issues no bulk-write and
\* raises nothing, returns 0 and leaves the collection empty.
C16_Aliased ==
    dest_col = src_col
        => /\ \A i \in 1..Len(log) :
                 (log[i].op = "aggregate" /\ log[i].allowDiskUse)
                     => \E j \in 1..(i - 1) : log[j].op = "delete_many"
           /\ pc \in {"L51", "L60", "L64", "done"} => cursor = <<>>
           /\ NumBulk(log) = 0
           /\ pc # "raised"
           /\ Ended => pc = "done" /\ ret = 0 /\ dest = <<>>

\* A run on one collection that held documents has returned.
C16_Witness ==
    /\ dest_col = src_col
    /\ pc = "done"
    /\ calls[1].src # <<>>
    /\ run = 1

\* The first call has returned a total greater than the number of its documents
\* present in the destination, the second call's delete-all having come between
\* two of its bulk-writes.
LostUpdate ==
    /\ pc = "done"
    /\ ret > Cardinality(DocSet(Reader) \cap DocSet(dest))
    /\ other.delAt >= 1
    /\ NumBulk(log) > other.delAt

\* CanReachK: LostUpdate can be reached from the current state by at most K
\* steps of the two calls.
CanReach0 == LostUpdate

CanReach1 == LostUpdate \/ ENABLED (NextConcurrent /\ CanReach0')

CanReach2 == LostUpdate \/ ENABLED (NextConcurrent /\ CanReach1')

CanReach3 == LostUpdate \/ ENABLED (NextConcurrent /\ CanReach2')

CanReach4 == LostUpdate \/ ENABLED (NextConcurrent /\ CanReach3')

CanReach5 == LostUpdate \/ ENABLED (NextConcurrent /\ CanReach4')

CanReach6 == LostUpdate \/ ENABLED (NextConcurrent /\ CanReach5')

CanReach7 == LostUpdate \/ ENABLED (NextConcurrent /\ CanReach6')

CanReach8 == LostUpdate \/ ENABLED (NextConcurrent /\ CanReach7')

CanReach9 == LostUpdate \/ ENABLED (NextConcurrent /\ CanReach8')

CanReach10 == LostUpdate \/ ENABLED (NextConcurrent /\ CanReach9')

CanReach11 == LostUpdate \/ ENABLED (NextConcurrent /\ CanReach10')

CanReach12 == LostUpdate \/ ENABLED (NextConcurrent /\ CanReach11')

\* C17 (Uncoordinated concurrent runs): when two calls on the same destination
\* start together with batch size 1 on a source with at least two distinct
\* dedupe-field values, nothing keeps the delete-all of one from falling between
\* two bulk-writes of the other: a state can be reached (within the 12 steps that
\* two calls copying two or three documents take) in which a call has returned a
\* total greater than the number of its documents present in the destination.
C17_RaceReachable ==
    (pc = "L42" /\ other.pc = "L42" /\ batch_size = 1 /\ Len(Reader) >= 2
                 /\ Len(Reader) <= 3)
        => CanReach12

====
